---- MODULE Spec2Model ----
(***************************************************************************)
(* Model of src/WeatherDataGraphs.jsx: the chart-input formatter           *)
(* (formatTimestamp, formatTimestamps, formatData) and the interaction     *)
(* state of the WeatherDataGraphs component (quick-filter buttons, the     *)
(* loading flag, the recorded label count and the rendered overlay).       *)
(*                                                                         *)
(* JavaScript values are tagged records, so that "is it an array" is a     *)
(* question the model can answer with no: an array is                      *)
(* [kind |-> "array", items |-> <<...>>], every other value has its own    *)
(* kind and no items.  Array indices are 0-based as in the source; At      *)
(* converts.  Time is counted in hours (the source counts milliseconds;    *)
(* 30 days of milliseconds does not fit TLC's 32-bit integers).            *)
(***************************************************************************)
EXTENDS Integers, Sequences, FiniteSets, TLC

VARIABLES
  \* React state of the component (useState, lines 152-161)
  loading, selectedFilter, selectedFilterButton, dataSize,
  selectedStartDate, selectedEndDate,
  \* the host: the props it passes, the calls it received through
  \* props.filterChange, whether it still owes data for the latest call
  props, filterChangeCalls, pending,
  \* what the last render put on screen, and whether the chart has finished
  \* animating the data of the current props
  view, drawn,
  \* the wall clock (hours) read by new Date()
  now,
  \* history: the event handled last, and the last click on a non-active button
  lastEvent, lastEffective,
  \* the formatter called on its own: arguments and returned value
  args, ret

uiVars == <<loading, selectedFilter, selectedFilterButton, dataSize,
            selectedStartDate, selectedEndDate, props, filterChangeCalls,
            pending, view, drawn, now, lastEvent, lastEffective>>
fmtVars == <<args, ret>>
vars == <<uiVars, fmtVars>>

----------------------------------------------------------------------------
(* Bounds *)

\* longest list of series names handed to formatData
MaxTypes == 2
\* longest list of timestamps handed to formatData
MaxTimes == 2
\* longest list of per-series value lists handed to formatData
MaxData == 2
\* most labels the host's data carries while the component is mounted
MaxLabels == 2
\* the clock stops advancing after this many hours
MaxNow == 1
\* quick-filter clicks that reach the host before the run is cut off
MaxCalls == 2

----------------------------------------------------------------------------
(* JavaScript values *)

Undefined == [kind |-> "undefined", items |-> <<>>]
Null == [kind |-> "null", items |-> <<>>]
PlainObject == [kind |-> "object", items |-> <<>>]
Arr(s) == [kind |-> "array", items |-> s]

\* Array.isArray
isArray(v) == v.kind = "array"

\* v[index] for an array v: the element, or undefined past the end
At(v, index) ==
  IF isArray(v) /\ index >= 0 /\ index < Len(v.items)
    THEN v.items[index + 1]
    ELSE Undefined

\* a number that may be NaN
Num(n) == [nan |-> FALSE, n |-> n]
NaN == [nan |-> TRUE, n |-> 0]
Plus(x, k) == IF x.nan THEN NaN ELSE Num(x.n + k)

\* String(x) for a number
String(x) == IF x.nan THEN "NaN" ELSE ToString(x.n)

\* String.prototype.padStart with a one-character pad
RECURSIVE padStart(_, _, _)
padStart(s, targetLength, padString) ==
  IF Len(s) >= targetLength
    THEN s
    ELSE padStart(padString \o s, targetLength, padString)

----------------------------------------------------------------------------
(* Timestamps.  A timestamp argument is null, undefined, the empty string, *)
(* a non-empty string that no date parser accepts, or an ISO date-time     *)
(* without offset, which new Date() reads as local time.                   *)

NoFields == [month |-> 0, day |-> 0, hours |-> 0, minutes |-> 0]
TsNull == [kind |-> "null"] @@ NoFields
TsUndefined == [kind |-> "undefined"] @@ NoFields
TsEmpty == [kind |-> "empty"] @@ NoFields
TsGarbage == [kind |-> "garbage"] @@ NoFields
Iso(mo, d, h, mi) ==
  [kind |-> "iso", month |-> mo, day |-> d, hours |-> h, minutes |-> mi]

\* !isoString
Falsy(ts) == ts.kind \in {"null", "undefined", "empty"}

\* new Date(isoString): an ISO string parses, null is the epoch, the rest is
\* an Invalid Date
NewDate(ts) ==
  CASE ts.kind = "iso" ->
         [valid |-> TRUE, month |-> ts.month - 1, date |-> ts.day,
          hours |-> ts.hours, minutes |-> ts.minutes]
    [] ts.kind = "null" ->
         [valid |-> TRUE, month |-> 0, date |-> 1, hours |-> 0, minutes |-> 0]
    [] OTHER ->
         [valid |-> FALSE, month |-> 0, date |-> 0, hours |-> 0, minutes |-> 0]

getMonth(date) == IF date.valid THEN Num(date.month) ELSE NaN
getDate(date) == IF date.valid THEN Num(date.date) ELSE NaN
getHours(date) == IF date.valid THEN Num(date.hours) ELSE NaN
getMinutes(date) == IF date.valid THEN Num(date.minutes) ELSE NaN

formatTimestamp(isoString) ==
  IF Falsy(isoString)
    THEN "Invalid Timestamp"
    ELSE LET date == NewDate(isoString)
             month == padStart(String(Plus(getMonth(date), 1)), 2, "0")
             day == padStart(String(getDate(date)), 2, "0")
             hours == padStart(String(getHours(date)), 2, "0")
             minutes == padStart(String(getMinutes(date)), 2, "0")
         IN  month \o "-" \o day \o " " \o hours \o ":" \o minutes

formatTimestamps(timestamps) ==
  IF ~isArray(timestamps)
    THEN <<>>
    ELSE [i \in 1..Len(timestamps.items) |-> formatTimestamp(timestamps.items[i])]

----------------------------------------------------------------------------
(* Colors.  An entry of props.colors is absent, a color token (string), or *)
(* an object with borderColor and, possibly, backgroundColor.              *)

NoColor == [kind |-> "undefined", token |-> "", borderColor |-> "", backgroundColor |-> ""]
Token(s) == [kind |-> "string", token |-> s, borderColor |-> "", backgroundColor |-> ""]
Pair(b, f) == [kind |-> "object", token |-> "", borderColor |-> b, backgroundColor |-> f]

defaultColors ==
  << [borderColor |-> "rgb(255, 206, 86)", backgroundColor |-> "rgba(255, 206, 86, 0.2)"],
     [borderColor |-> "rgb(54, 162, 235)", backgroundColor |-> "rgba(54, 162, 235, 0.2)"],
     [borderColor |-> "rgb(255, 99, 132)", backgroundColor |-> "rgba(255, 99, 132, 0.2)"],
     [borderColor |-> "rgb(75, 192, 192)", backgroundColor |-> "rgba(75, 192, 192, 0.2)"] >>

\* colors && colors[index]: colors itself may be undefined or null
colorAt(colors, index) ==
  IF isArray(colors) /\ index < Len(colors.items)
    THEN colors.items[index + 1]
    ELSE NoColor

\* `${colors[index]}`: a string is itself, an object prints as [object Object]
colorText(c) == IF c.kind = "string" THEN c.token ELSE "[object Object]"

color(colors, index) ==
  LET c == colorAt(colors, index) IN
  IF c.kind # "undefined"
    THEN [borderColor |-> IF c.borderColor # "" THEN c.borderColor ELSE colorText(c),
          backgroundColor |-> IF c.backgroundColor # "" THEN c.backgroundColor
                                                        ELSE colorText(c) \o "4D"]
    ELSE defaultColors[(index % Len(defaultColors)) + 1]

----------------------------------------------------------------------------
(* formatData *)

\* the value returned on malformed input (lines 62-65); console.error ran
EmptyChart == [threw |-> FALSE, logged |-> TRUE, labels |-> <<>>, datasets |-> <<>>]
\* a TypeError escaping to the caller
TypeError == [threw |-> TRUE, logged |-> FALSE, labels |-> <<>>, datasets |-> <<>>]

\* line 101 with the check dropped: whatever dataArray[index] is
datasetData_unchecked(dataArray, index) == At(dataArray, index)

\* line 101: Array.isArray(dataArray[index]) ? dataArray[index] : []
datasetData(dataArray, index) ==
  IF isArray(At(dataArray, index)) THEN At(dataArray, index) ELSE Arr(<<>>)

\* the object built for one series (lines 89-107)
dataset(type, index, dataArray, colors) ==
  [label |-> type,
   data |-> datasetData(dataArray, index),
   borderColor |-> color(colors, index).borderColor,
   backgroundColor |-> color(colors, index).backgroundColor,
   fill |-> FALSE,
   tension |-> "0.4"]

\* lines 88-112 on any arguments: types.map is not a function unless types
\* is an array, and dataArray[index] cannot be read from null or undefined
buildChart(types, timestamps, dataArray, colors) ==
  IF ~isArray(types)
    THEN TypeError
    ELSE IF Len(types.items) > 0 /\ dataArray.kind \in {"null", "undefined"}
      THEN TypeError
      ELSE [threw |-> FALSE, logged |-> FALSE,
            labels |-> formatTimestamps(timestamps),
            datasets |-> [i \in 1..Len(types.items) |->
                            dataset(types.items[i], i - 1, dataArray, colors)]]

\* formatData without the validation of lines 49-66
formatData_unvalidated(types, timestamps, dataArray, colors) ==
  buildChart(types, timestamps, dataArray, colors)

formatData(types, timestamps, dataArray, colors) ==
  IF ~isArray(types) \/ ~isArray(timestamps) \/ ~isArray(dataArray)
    THEN EmptyChart
    ELSE buildChart(types, timestamps, dataArray, colors)

----------------------------------------------------------------------------
(* The component: props, render, handlers *)

\* the three quick-filter buttons, in the order of filterButtons
Keys == <<"oneD", "oneW", "oneM">>
KeySet == {Keys[i] : i \in 1..Len(Keys)}

\* 24 * 60 * 60 * 1000 ms, in hours
Day == 24

\* the `filter` passed to setSelectedFilter and props.filterChange by each button
filterButtons ==
  [oneD |-> [filter |-> "Hourly", back |-> Day],
   oneW |-> [filter |-> "Daily", back |-> 7 * Day],
   oneM |-> [filter |-> "Monthly", back |-> 30 * Day]]

\* props.startDate / props.endDate: not passed, or a date
NoDate == [set |-> FALSE, at |-> 0]
DateProp(t) == [set |-> TRUE, at |-> t]

\* props.startDate || today
orToday(dateProp, today) == IF dateProp.set THEN dateProp.at ELSE today

\* the render that leaves leftLoad out of the overlay condition
render_loadingOnly(isLoading, p, activeKey) ==
  [data |-> formatData(p.types, p.time, p.data, p.colors),
   disabled |-> {k \in KeySet : activeKey = k},
   activeFilter |-> {k \in KeySet : activeKey = k},
   overlayOuter |-> isLoading,
   blur |-> isLoading,
   overlayInner |-> isLoading]

\* what one render puts on screen (lines 175, 286-329): the chart input, the
\* disabled and highlighted buttons, the two overlays and the blur class
render(isLoading, p, activeKey) ==
  [data |-> formatData(p.types, p.time, p.data, p.colors),
   disabled |-> {k \in KeySet : activeKey = k},
   activeFilter |-> {k \in KeySet : activeKey = k},
   overlayOuter |-> (isLoading \/ p.leftLoad),
   blur |-> (isLoading \/ p.leftLoad),
   overlayInner |-> (isLoading \/ p.leftLoad)]

reactState == <<loading, selectedFilter, selectedFilterButton, dataSize,
                selectedStartDate, selectedEndDate>>

\* a button's action without the early return
action_noGuard(key) ==
  /\ selectedFilterButton' = key
  /\ selectedStartDate' = now - filterButtons[key].back
  /\ selectedEndDate' = now
  /\ selectedFilter' = filterButtons[key].filter
  /\ filterChangeCalls' = Append(filterChangeCalls, filterButtons[key].filter)
  /\ pending' = TRUE
  /\ loading' = TRUE
  /\ UNCHANGED dataSize

\* a button's action that forgets setLoading(true)
action_noLoading(key) ==
  IF selectedFilterButton = key
    THEN UNCHANGED <<reactState, filterChangeCalls, pending>>
    ELSE /\ selectedFilterButton' = key
         /\ selectedStartDate' = now - filterButtons[key].back
         /\ selectedEndDate' = now
         /\ selectedFilter' = filterButtons[key].filter
         /\ filterChangeCalls' = Append(filterChangeCalls, filterButtons[key].filter)
         /\ pending' = TRUE
         /\ UNCHANGED <<loading, dataSize>>

\* a button's action that keeps the old range
action_staleRange(key) ==
  IF selectedFilterButton = key
    THEN UNCHANGED <<reactState, filterChangeCalls, pending>>
    ELSE /\ selectedFilterButton' = key
         /\ selectedFilter' = filterButtons[key].filter
         /\ filterChangeCalls' = Append(filterChangeCalls, filterButtons[key].filter)
         /\ pending' = TRUE
         /\ loading' = TRUE
         /\ UNCHANGED <<selectedStartDate, selectedEndDate, dataSize>>

\* filterButtons[key].action (lines 230-241, 247-258, 264-277)
action(key) ==
  IF selectedFilterButton = key
    THEN UNCHANGED <<reactState, filterChangeCalls, pending>>
    ELSE /\ selectedFilterButton' = key
         /\ selectedStartDate' = now - filterButtons[key].back
         /\ selectedEndDate' = now
         /\ selectedFilter' = filterButtons[key].filter
         /\ filterChangeCalls' = Append(filterChangeCalls, filterButtons[key].filter)
         /\ pending' = TRUE
         /\ loading' = TRUE
         /\ UNCHANGED dataSize

\* onComplete that clears loading on every completion
onComplete_always(count) ==
  /\ dataSize' = count
  /\ loading' = FALSE

\* onComplete that only acts while loading
onComplete_whenLoading(count) ==
  IF loading /\ count # dataSize
    THEN /\ dataSize' = count
         /\ loading' = FALSE
    ELSE UNCHANGED <<dataSize, loading>>

\* options.animation.onComplete (lines 180-186); count is
\* e.chart.config._config.data.labels.length
onComplete(count) ==
  IF count # dataSize
    THEN /\ dataSize' = count
         /\ loading' = FALSE
    ELSE UNCHANGED <<dataSize, loading>>

----------------------------------------------------------------------------
(* Events *)

Event(type, key, count) ==
  [type |-> type, key |-> key, count |-> count,
   wasLoading |-> loading, prevSize |-> dataSize,
   effective |-> (type = "click" /\ key # selectedFilterButton)]

rerender ==
  view' = render(loading', props', selectedFilterButton')

\* The user clicks a quick-filter button.  The handler is modelled as called
\* for every button; the browser does not dispatch a click on a disabled
\* button, which leaves the state as the handler's early return does.
Click(key) ==
  /\ ret.fn = "mounted"
  /\ key # selectedFilterButton => Len(filterChangeCalls) < MaxCalls
  /\ action(key)
  /\ lastEvent' = Event("click", key, 0)
  /\ lastEffective' = IF key # selectedFilterButton
                        THEN [key |-> key, at |-> now]
                        ELSE lastEffective
  /\ UNCHANGED <<props, drawn, now, fmtVars>>
  /\ rerender

\* The chart finishes animating the data of the last render.
ChartComplete ==
  /\ ret.fn = "mounted"
  /\ onComplete(Len(view.data.labels))
  /\ drawn' = TRUE
  /\ lastEvent' = Event("complete", "", Len(view.data.labels))
  /\ UNCHANGED <<selectedFilter, selectedFilterButton, selectedStartDate,
                 selectedEndDate, props, filterChangeCalls, pending, now,
                 lastEffective, fmtVars>>
  /\ rerender

\* timestamps the host's data carries
IsoA == Iso(1, 5, 0, 7)
IsoB == Iso(12, 31, 23, 59)

\* props.time as the host may pass it: n timestamps, n = 0 included
TimeProps ==
  {Arr([i \in 1..n |-> t]) : n \in 0..MaxLabels, t \in {IsoA, IsoB}}

\* The host passes new data (in answer to filterChange, or on its own).
HostSetData ==
  /\ ret.fn = "mounted"
  /\ \E time \in TimeProps \ {props.time} :
       props' = [props EXCEPT !.time = time]
  /\ pending' = FALSE
  /\ drawn' = FALSE
  /\ lastEvent' = Event("props", "", 0)
  /\ UNCHANGED <<reactState, filterChangeCalls, now, lastEffective, fmtVars>>
  /\ rerender

\* The host flips props.leftLoad.
HostSetLeftLoad ==
  /\ ret.fn = "mounted"
  /\ props' = [props EXCEPT !.leftLoad = ~props.leftLoad]
  /\ lastEvent' = Event("leftLoad", "", 0)
  /\ UNCHANGED <<reactState, filterChangeCalls, pending, drawn, now,
                 lastEffective, fmtVars>>
  /\ rerender

\* An hour passes.
Tick ==
  /\ ret.fn = "mounted"
  /\ now < MaxNow
  /\ now' = now + 1
  /\ lastEvent' = Event("tick", "", 0)
  /\ UNCHANGED <<reactState, props, filterChangeCalls, pending, view, drawn,
                 lastEffective, fmtVars>>

----------------------------------------------------------------------------
(* The mounted component *)

NoArgs == [types |-> Null, time |-> Null, data |-> Null, colors |-> Undefined]
Ret(fn, index, text, list, chart) ==
  [fn |-> fn, index |-> index, text |-> text, list |-> list, chart |-> chart]
NoChart == [threw |-> FALSE, logged |-> FALSE, labels |-> <<>>, datasets |-> <<>>]

\* the state after the first render of a component mounted at hour 0
Mounted(p) ==
  /\ props = p
  /\ loading = FALSE
  /\ selectedFilter = "Range"
  /\ selectedFilterButton = "oneD"
  /\ dataSize = 0
  /\ now = 0
  /\ selectedStartDate = orToday(p.startDate, 0)
  /\ selectedEndDate = orToday(p.endDate, 0)
  /\ filterChangeCalls = <<>>
  /\ pending = FALSE
  /\ drawn = FALSE
  /\ view = render(FALSE, p, "oneD")
  /\ lastEvent = [type |-> "mount", key |-> "", count |-> 0, wasLoading |-> FALSE,
                  prevSize |-> 0, effective |-> FALSE]
  /\ lastEffective = [key |-> "none", at |-> 0]

\* the host passes both dates or neither
HostProps ==
  { [types |-> Arr(<<"Temp", "Humidity">>),
     time |-> time,
     data |-> Arr(<<Arr(<<10>>), Arr(<<50>>)>>),
     colors |-> Undefined,
     leftLoad |-> leftLoad,
     startDate |-> dates[1],
     endDate |-> dates[2]] :
    time \in TimeProps, leftLoad \in BOOLEAN,
    dates \in {<<NoDate, NoDate>>, <<DateProp(0 - 2 * Day), DateProp(0 - Day)>>} }

Init ==
  /\ \E p \in HostProps : Mounted(p)
  /\ args = NoArgs
  /\ ret = Ret("mounted", 0, "", <<>>, NoChart)

Next ==
  \/ \E key \in KeySet : Click(key)
  \/ ChartComplete
  \/ HostSetData
  \/ HostSetLeftLoad
  \/ Tick

Spec == Init /\ [][Next]_vars

----------------------------------------------------------------------------
(* The formatter called on its own *)

Names == {"Temp", "Humidity"}
Timestamps == {TsNull, TsUndefined, TsEmpty, TsGarbage, IsoA, IsoB}
Series == {Arr(<<10>>), Arr(<<50, 60>>), Null}
NonArrays == {Null, Undefined, PlainObject}

\* all lists over S of length at most n
SeqUpTo(S, n) == UNION {[1..k -> S] : k \in 0..n}

TypesArgs == NonArrays \cup {Arr(s) : s \in SeqUpTo(Names, MaxTypes)}
TimeArgs == NonArrays \cup {Arr(s) : s \in SeqUpTo(Timestamps, MaxTimes)}
DataArgs == NonArrays \cup {Arr(s) : s \in SeqUpTo(Series, MaxData)}
ColorsArgs ==
  {Undefined,
   Arr(<<NoColor, Pair("red", "pink")>>),
   Arr(<<Pair("blue", ""), Token("#00ff00"), Token("#0000ff")>>)}

InitFmt ==
  /\ Mounted(CHOOSE p \in HostProps : p.time = Arr(<<>>) /\ ~p.leftLoad /\ ~p.startDate.set)
  /\ args \in [types : TypesArgs, time : TimeArgs, data : DataArgs, colors : ColorsArgs]
  /\ ret = Ret("none", 0, "", <<>>, NoChart)

\* data = formatData(types, time, data, colors)
CallFormatData ==
  /\ ret.fn = "none"
  /\ ret' = Ret("formatData", 0, "", <<>>,
                formatData(args.types, args.time, args.data, args.colors))
  /\ UNCHANGED <<uiVars, args>>

\* formatTimestamps(time)
CallFormatTimestamps ==
  /\ ret.fn = "none"
  /\ ret' = Ret("formatTimestamps", 0, "", formatTimestamps(args.time), NoChart)
  /\ UNCHANGED <<uiVars, args>>

\* formatTimestamp(time[index])
CallFormatTimestamp(index) ==
  /\ ret.fn = "none"
  /\ isArray(args.time)
  /\ index < Len(args.time.items)
  /\ ret' = Ret("formatTimestamp", index, formatTimestamp(At(args.time, index)),
                <<>>, NoChart)
  /\ UNCHANGED <<uiVars, args>>

NextFmt ==
  \/ CallFormatData
  \/ CallFormatTimestamps
  \/ \E index \in 0..(MaxTimes - 1) : CallFormatTimestamp(index)

FmtSpec == InitFmt /\ [][NextFmt]_vars

----------------------------------------------------------------------------
(* Properties of the mounted component (Spec) *)

\* the label the specification gives each quick-filter button
LabelOf(key) ==
  CASE key = "oneD" -> "Hourly"
    [] key = "oneW" -> "Daily"
    [] key = "oneM" -> "Monthly"

\* the length, in hours, of the range the specification gives each button
HoursOf(key) ==
  CASE key = "oneD" -> 24
    [] key = "oneW" -> 168
    [] key = "oneM" -> 720

\* C1: a click on a quick-filter button that is not the active one, whether
\* the component is idle or loading, appends exactly one call to the host's
\* filterChange, with the label of that button, makes the button the active
\* one and leaves the component loading.
C1_ClickNotifiesOnce ==
  [][(lastEvent'.type = "click" /\ lastEvent'.key # selectedFilterButton)
       => /\ filterChangeCalls' = Append(filterChangeCalls, LabelOf(lastEvent'.key))
          /\ selectedFilterButton' = lastEvent'.key
          /\ loading' = TRUE]_vars

\* a second non-active click, made while the first was still loading
C1_Witness ==
  /\ lastEvent.type = "click"
  /\ lastEvent.effective
  /\ lastEvent.wasLoading
  /\ loading
  /\ filterChangeCalls = <<"Daily", "Monthly">>

\* C2: a click on the active quick-filter button changes nothing: no call to
\* filterChange, and the active button, selected filter, range, loading flag
\* and recorded label count stay as they were.
C2_ActiveClickNoOp ==
  [][(lastEvent'.type = "click" /\ lastEvent'.key = selectedFilterButton)
       => UNCHANGED <<filterChangeCalls, selectedFilterButton, selectedFilter,
                      selectedStartDate, selectedEndDate, loading, dataSize>>]_vars

\* the active button clicked again while loading, after the clock has moved
\* past the range the first click computed
C2_Witness ==
  /\ lastEvent.type = "click"
  /\ ~lastEvent.effective
  /\ lastEvent.key = "oneW"
  /\ loading
  /\ now > selectedEndDate

\* C3: loading is cleared only by a completion signal whose label count
\* differs from the recorded one; no click, no leftLoad change, no new props
\* and no completion signal with the recorded count clears it.
C3_LoadingUntilNewCount ==
  [][(loading /\ ~loading')
       => (lastEvent'.type = "complete" /\ lastEvent'.count # dataSize)]_vars

\* a completion signal with the recorded count arrived while loading, and the
\* component is still loading
C3_Witness ==
  /\ lastEvent.type = "complete"
  /\ lastEvent.wasLoading
  /\ lastEvent.count = lastEvent.prevSize
  /\ lastEvent.count > 0
  /\ loading

\* C4: once the host has passed new data in answer to the latest
\* filterChange and the chart has signalled that it finished drawing that
\* data, the component is idle again, whatever the size of the new data.
C4_LoopCloses ==
  (~pending /\ drawn) => ~loading

\* C5: the overlays and the blur are on screen exactly when loading or
\* props.leftLoad is true.
C5_OverlayIffLoading ==
  /\ view.overlayOuter = (loading \/ props.leftLoad)
  /\ view.overlayInner = (loading \/ props.leftLoad)
  /\ view.blur = (loading \/ props.leftLoad)

\* the overlay forced by the host alone, after a load has completed
C5_Witness ==
  /\ view.overlayOuter
  /\ view.blur
  /\ ~loading
  /\ props.leftLoad
  /\ filterChangeCalls # <<>>

\* C9 as claimed: a completion signal that arrives while the component is
\* idle leaves the recorded label count and the loading flag unchanged.
C9_IdleSignalIgnored ==
  [][(lastEvent'.type = "complete" /\ ~loading)
       => UNCHANGED <<dataSize, loading>>]_vars

\* C9 amended: a completion signal whose label count differs from the
\* recorded one records it and leaves the component idle, loading or not; a
\* completion signal with the recorded count changes neither.
C9_SignalRecordsNewCount ==
  [][lastEvent'.type = "complete"
       => IF lastEvent'.count # dataSize
            THEN dataSize' = lastEvent'.count /\ loading' = FALSE
            ELSE UNCHANGED <<dataSize, loading>>]_vars

\* a completion signal arrived while idle and changed the recorded count
C9_Witness ==
  /\ lastEvent.type = "complete"
  /\ ~lastEvent.wasLoading
  /\ lastEvent.prevSize # dataSize
  /\ dataSize = lastEvent.count
  /\ ~loading

\* C10: the last click on a non-active button wins: the active button, the
\* selected filter, the last label handed to filterChange and the range are
\* the ones of that click; before any such click the active button is oneD
\* and filterChange was never called.
C10_LastClickWins ==
  IF lastEffective.key = "none"
    THEN /\ selectedFilterButton = "oneD"
         /\ filterChangeCalls = <<>>
    ELSE /\ selectedFilterButton = lastEffective.key
         /\ selectedFilter = LabelOf(lastEffective.key)
         /\ filterChangeCalls # <<>>
         /\ filterChangeCalls[Len(filterChangeCalls)] = LabelOf(lastEffective.key)
         /\ selectedEndDate = lastEffective.at
         /\ selectedStartDate = lastEffective.at - HoursOf(lastEffective.key)

\* two clicks, the second made later than the first and while still loading,
\* followed by other events
C10_Witness ==
  /\ Len(filterChangeCalls) = 2
  /\ lastEffective.key = "oneD"
  /\ lastEffective.at > 0
  /\ lastEvent.type = "complete"
  /\ lastEvent.wasLoading

----------------------------------------------------------------------------
(* Properties of the formatter (FmtSpec) *)

\* C6: for arrays types, time and data, formatData returns without throwing
\* one dataset per series name, in order, dataset i labelled types[i] and
\* carrying data[i] when that is an array and the empty array otherwise.
C6_OneDatasetPerSeries ==
  (ret.fn = "formatData" /\ isArray(args.types) /\ isArray(args.time)
     /\ isArray(args.data))
    => /\ ~ret.chart.threw
       /\ Len(ret.chart.datasets) = Len(args.types.items)
       /\ \A i \in 1..Len(args.types.items) :
            /\ ret.chart.datasets[i].label = args.types.items[i]
            /\ ret.chart.datasets[i].data =
                 IF i <= Len(args.data.items) /\ args.data.items[i].kind = "array"
                   THEN args.data.items[i]
                   ELSE Arr(<<>>)

\* two series, the first with a non-list entry, the second with its data
C6_Witness ==
  /\ ret.fn = "formatData"
  /\ args.types = Arr(<<"Temp", "Humidity">>)
  /\ isArray(args.time)
  /\ args.data = Arr(<<Null, Arr(<<50, 60>>)>>)
  /\ ret.chart.datasets[1].data = Arr(<<>>)
  /\ ret.chart.datasets[2].data = Arr(<<50, 60>>)

\* C7: when types, time or data is not an array, formatData returns the
\* empty chart input and does not throw, whatever the other arguments are.
C7_MalformedGivesEmptyChart ==
  (ret.fn = "formatData"
     /\ (~isArray(args.types) \/ ~isArray(args.time) \/ ~isArray(args.data)))
    => /\ ~ret.chart.threw
       /\ ret.chart.labels = <<>>
       /\ ret.chart.datasets = <<>>

\* only time is malformed; the series, their data and colors are all there
C7_Witness ==
  /\ ret.fn = "formatData"
  /\ args.types = Arr(<<"Temp", "Humidity">>)
  /\ args.time = Null
  /\ args.data = Arr(<<Arr(<<10>>), Arr(<<50, 60>>)>>)
  /\ isArray(args.colors)
  /\ ret.chart.datasets = <<>>

Digits == <<"0", "1", "2", "3", "4", "5", "6", "7", "8", "9">>
TwoDigits(n) == Digits[(n \div 10) + 1] \o Digits[(n % 10) + 1]

\* the label the specification gives a timestamp
LabelOfTimestamp(ts) ==
  IF ts.kind = "iso"
    THEN TwoDigits(ts.month) \o "-" \o TwoDigits(ts.day) \o " "
           \o TwoDigits(ts.hours) \o ":" \o TwoDigits(ts.minutes)
    ELSE "Invalid Timestamp"

\* C8: formatTimestamp gives "Invalid Timestamp" for null, undefined, the
\* empty string and any string that is not a date, and MM-DD HH:MM, zero
\* padded, for a valid timestamp; formatTimestamps does so element by
\* element, keeping order and length.
C8_TimestampLabels ==
  /\ ret.fn = "formatTimestamp"
       => ret.text = LabelOfTimestamp(At(args.time, ret.index))
  /\ (ret.fn = "formatTimestamps" /\ isArray(args.time))
       => /\ Len(ret.list) = Len(args.time.items)
          /\ \A i \in 1..Len(args.time.items) :
               ret.list[i] = LabelOfTimestamp(args.time.items[i])

====
